---- MODULE Spec2Model ----
(***************************************************************************)
(* Model of app/main.py: the /upload handler (upload_video_endpoint), the  *)
(* helper coroutine run_upload_in_thread, the directory sweep              *)
(* cleanup_chrome_data and the pure helpers process_hashtags and           *)
(* clean_string.                                                           *)
(*                                                                         *)
(* Scheduling.  The handlers are coroutines on one asyncio event loop      *)
(* (uvicorn.run, line 224).  A coroutine runs without interruption until   *)
(* it awaits; the only await that suspends is asyncio.to_thread (line      *)
(* 115).  The variable running names the job whose coroutine occupies the  *)
(* loop; the steps of a handler are separate actions, all guarded by       *)
(* running = j, so no other coroutine step interleaves with them.  The     *)
(* Publish Driver (upload_video) runs in a worker thread and finishes      *)
(* independently of the loop.  Requests are numbered in the order in which *)
(* they arrive.  The handler of GET /health (line 218) occupies the loop   *)
(* too, as running = HealthReq, from its start to its response.            *)
(*                                                                         *)
(* Failures.  The collaborators and the file system calls the code guards  *)
(* can fail: the copy of the upload (line 157), mix_audio (line 172),      *)
(* upload_video (line 115), shutil.rmtree (lines 56 and 123) and os.unlink *)
(* (line 214).  os.makedirs, tempfile.NamedTemporaryFile and the           *)
(* AudioProcessor constructor are taken to succeed.                        *)
(***************************************************************************)
EXTENDS Naturals, Sequences, FiniteSets

VARIABLES
    pc,              \* job -> position of its handler
    running,         \* the job whose coroutine occupies the event loop, HealthReq
                     \* while the health check does, or NoJob
    accountname,     \* job -> account identity of the request
    sound_name,      \* job -> sound identifier of the request, or NoSound
    temp_files,      \* job -> the handler's list temp_files (line 138)
    files,           \* temporary files that exist on disk
    dirs,            \* directories that exist under CHROME_DATA_DIR
    exc,             \* job -> the exception in flight, or "none"
    response,        \* job -> HTTP status sent to the caller, 0 while none
    drvResult,       \* job -> what upload_video did: returned or raised
    trace,           \* job -> the stages the job has entered, in order
    rmFailed,        \* job -> the rmtree of line 123 failed (error ignored)
    unlinkFailed,    \* job -> the files whose os.unlink (line 214) failed
    hashtags,        \* the hashtags form field, as received, then as cleaned
    description,     \* the description form field, as received, then as cleaned
    processed,       \* process_hashtags(hashtags), once computed
    reprocessed,     \* process_hashtags applied to processed
    description_with_tags,  \* the description handed to upload_video (line 110)
    tagPc,           \* position of the text pipeline
    account,         \* the accountname form field, as received, then as cleaned
    cookie_file,     \* the cookie path the handler validates (line 151)
    cookies,         \* the cookie path handed to upload_video (lines 79, 111)
    pathPc           \* position of the credential path pipeline

vars == <<pc, running, accountname, sound_name, temp_files, files, dirs, exc,
          response, drvResult, trace, rmFailed, unlinkFailed,
          hashtags, description, processed, reprocessed,
          description_with_tags, tagPc, account, cookie_file, cookies, pathPc>>

jobVars == <<pc, running, accountname, sound_name, temp_files, files, dirs, exc,
             response, drvResult, trace, rmFailed, unlinkFailed>>

pathVars == <<account, cookie_file, cookies, pathPc>>

tagVars == <<hashtags, description, processed, reprocessed,
             description_with_tags, tagPc, pathVars>>

----
\* Bounds of the model.

\* Number of /upload requests submitted.
NumJobs == 2

\* Longest hashtags string enumerated exhaustively.
MaxLen == 3

\* Longest accountname string enumerated exhaustively.
MaxName == 4

Jobs == 1..NumJobs

NoJob == 0

\* The handler of GET /health, when it occupies the event loop.
HealthReq == NumJobs + 1

----
\* The environment: files the deployment provides.

\* Accounts a request may name.
Accounts == {"alice", "bob", "dave"}

\* Content of the cookie blob COOKIE_DIR/<account>.txt, for the accounts that
\* have one: with the session-token marker or without it.
CookieBlob == [alice |-> "marker", bob |-> "nomarker"]

\* A handler that does not check that the cookie file exists.
CookieExistsUnchecked(a) == TRUE

\* os.path.exists(cookie_file), lines 151-152.
CookieExists(a) == a \in DOMAIN CookieBlob

NoSound == "None"

\* Values of the sound_name form field.
SoundInputs == {NoSound, "rain", "nosuch"}

\* os.path.exists(sound_path), line 168: the sounds library holds rain.mp3.
SoundExists(s) == s \in {"rain"}

\* The temporary files a job creates.
ClipFile(j) == [kind |-> "clip", job |-> j]

MixedFile(j) == [kind |-> "mixed", job |-> j]

\* isinstance(e, HTTPException), line 205.
IsHTTPException(e) == e \in {"HTTP400", "HTTP404", "HTTP500"}

\* status_code of an HTTPException.
StatusOf(e) ==
    CASE e = "HTTP400" -> 400
      [] e = "HTTP404" -> 404
      [] e = "HTTP500" -> 500
      [] OTHER -> 500

\* The set of the elements of a sequence.
Range(s) == {s[i] : i \in 1..Len(s)}

----
\* Text: a string is the sequence of its characters, each a string.

\* None, the value of a form field that was not sent.
None == <<"None">>

\* Python's truth value of an Optional[str]: None and "" are false.
Truthy(s) == s # None /\ s # <<>>

\* A string is the sequence of its characters.  An ASCII character is the
\* one-character string that holds it; a character beyond ASCII, which a
\* TLA+ string cannot hold the same way under every character set, is the
\* string "U+" followed by the four hexadecimal digits of its code point.
\*
\* The characters str.strip() removes when called without an argument: the 29
\* for which str.isspace() is true.  The ASCII ones are tab, line feed,
\* carriage return, form feed, space and, written as the characters
\* themselves, U+000B and U+001C to U+001F; the other 19 follow.
Whitespace ==
    {"\t", "\n", "\r", "\f", " "} \cup
    {"", "", "", "", ""} \cup
    {"U+0085", "U+00A0", "U+1680", "U+2000", "U+2001", "U+2002",
     "U+2003", "U+2004", "U+2005", "U+2006", "U+2007", "U+2008",
     "U+2009", "U+200A", "U+2028", "U+2029", "U+202F", "U+205F",
     "U+3000"}

\* str.lstrip(chars)
RECURSIVE LStripChars(_, _)
LStripChars(s, chars) ==
    IF s = <<>> THEN s
    ELSE IF Head(s) \in chars THEN LStripChars(Tail(s), chars)
    ELSE s

\* str.rstrip(chars)
RECURSIVE RStripChars(_, _)
RStripChars(s, chars) ==
    IF s = <<>> THEN s
    ELSE IF s[Len(s)] \in chars THEN RStripChars(SubSeq(s, 1, Len(s) - 1), chars)
    ELSE s

\* str.strip(chars)
StripChars(s, chars) == RStripChars(LStripChars(s, chars), chars)

\* str.replace(c, '')
RemoveChar(s, c) == SelectSeq(s, LAMBDA x : x # c)

\* The rest of str.split(sep) once the characters of cur were read.
RECURSIVE SplitFrom(_, _, _)
SplitFrom(s, sep, cur) ==
    IF s = <<>> THEN <<cur>>
    ELSE IF Head(s) = sep THEN <<cur>> \o SplitFrom(Tail(s), sep, <<>>)
    ELSE SplitFrom(Tail(s), sep, Append(cur, Head(s)))

\* str.split(sep)
Split(s, sep) == SplitFrom(s, sep, <<>>)

\* sep.join(parts)
RECURSIVE Join(_, _)
Join(parts, sep) ==
    IF parts = <<>> THEN <<>>
    ELSE IF Len(parts) = 1 THEN parts[1]
    ELSE parts[1] \o sep \o Join(Tail(parts), sep)

\* f'#{tag.lstrip("#").strip()}', line 38.
FormatTag(tag) == <<"#">> \o StripChars(LStripChars(tag, {"#"}), Whitespace)

\* [... for tag in tags if tag.strip()], line 38.
KeptTags(tags) == SelectSeq(tags, LAMBDA t : StripChars(t, Whitespace) # <<>>)

\* process_hashtags, lines 32-39.
process_hashtags(h) ==
    IF ~Truthy(h) THEN <<>>
    ELSE LET tags == KeptTags(Split(h, ","))
         IN  Join([i \in 1..Len(tags) |-> FormatTag(tags[i])], <<" ">>)

\* clean_string, lines 41-46.
clean_string(s) ==
    IF s = None THEN s
    ELSE RemoveChar(RemoveChar(StripChars(s, {"'", "\""}), "{"), "}")

\* description_with_tags, line 76.
DescriptionWithTags(d, h) ==
    IF Truthy(h) THEN d \o <<" ">> \o process_hashtags(h) ELSE d

\* The characters of the enumerated hashtags strings.
TagAlphabet == {"a", "b", "#", ",", " ", "\t", "U+00A0", "'", "{"}

\* All strings over TagAlphabet of at most n characters.
RECURSIVE StringsUpTo(_)
StringsUpTo(n) ==
    IF n = 0 THEN {<<>>}
    ELSE LET S == StringsUpTo(n - 1)
         IN  S \cup {Append(s, c) : s \in S, c \in TagAlphabet}

\* "funny, #dance ,music"
ExampleTags ==
    <<"f", "u", "n", "n", "y", ",", " ", "#", "d", "a", "n", "c", "e", " ", ",",
      "m", "u", "s", "i", "c">>

\* "#funny #dance #music"
ExampleFormatted ==
    <<"#", "f", "u", "n", "n", "y", " ", "#", "d", "a", "n", "c", "e", " ",
      "#", "m", "u", "s", "i", "c">>

\* Values of the hashtags form field.
HashtagInputs == StringsUpTo(MaxLen) \cup {None, ExampleTags}

\* Values of the description form field: "clip" and "'clip}'".
DescriptionInputs == {<<"c", "l", "i", "p">>, <<"'", "c", "l", "i", "p", "}", "'">>}

----
\* The text pipeline of one request.

\* Lines 144-146: the form fields are cleaned.
CleanInputs ==
    /\ tagPc = "form"
    /\ description' = clean_string(description)
    /\ hashtags' = IF Truthy(hashtags) THEN clean_string(hashtags) ELSE None
    /\ tagPc' = "cleaned"
    /\ UNCHANGED <<processed, reprocessed, description_with_tags, pathVars,
                   jobVars>>

\* Line 76: the hashtags are formatted and appended to the description.
ComposeDescription ==
    /\ tagPc = "cleaned"
    /\ processed' = process_hashtags(hashtags)
    /\ description_with_tags' = DescriptionWithTags(description, hashtags)
    /\ tagPc' = "composed"
    /\ UNCHANGED <<hashtags, description, reprocessed, pathVars, jobVars>>

\* The formatted hashtags are formatted once more.
Reprocess ==
    /\ tagPc = "composed"
    /\ reprocessed' = process_hashtags(processed)
    /\ tagPc' = "reprocessed"
    /\ UNCHANGED <<hashtags, description, processed, description_with_tags,
                   pathVars, jobVars>>

----
\* The credential path of one request.  A path is a string; the file system
\* is the set of directories and files below, each a sequence of components.

\* COOKIE_DIR = "/app/cookies", line 25.
COOKIE_DIR == <<"/", "a", "p", "p", "/", "c", "o", "o", "k", "i", "e", "s">>

\* ".txt", lines 79 and 151.
TxtSuffix == <<".", "t", "x", "t">>

AppName == <<"a", "p", "p">>

CookiesName == <<"c", "o", "o", "k", "i", "e", "s">>

\* The directories that exist: /, /app and /app/cookies.
Directories == {<<>>, <<AppName>>, <<AppName, CookiesName>>}

\* The regular files that exist: the cookie file /app/cookies/a.txt and a
\* file outside the cookie directory, /app/a.txt.
RegularFiles ==
    {<<AppName, CookiesName, <<"a">> \o TxtSuffix>>, <<AppName, <<"a">> \o TxtSuffix>>}

\* The result of a path walk that fails.
NoEntry == <<<<"ENOENT">>>>

\* os.path.join(a, b) of posixpath: an absolute b replaces a.
PathJoin(a, b) ==
    IF b # <<>> /\ Head(b) = "/" THEN b
    ELSE IF a = <<>> \/ a[Len(a)] = "/" THEN a \o b
    ELSE a \o <<"/">> \o b

\* The kernel's walk of the components comps from the entry cur: "" and "."
\* stay, ".." goes to the parent, a name descends; only a directory can be
\* walked through.
RECURSIVE Walk(_, _)
Walk(comps, cur) ==
    IF comps = <<>> THEN cur
    ELSE IF cur \notin Directories THEN NoEntry
    ELSE LET c == Head(comps)
             next == IF c = <<>> \/ c = <<".">> THEN cur
                     ELSE IF c = <<".", ".">>
                          THEN IF cur = <<>> THEN cur ELSE SubSeq(cur, 1, Len(cur) - 1)
                     ELSE Append(cur, c)
         IN  IF next \in Directories \cup RegularFiles
             THEN Walk(Tail(comps), next)
             ELSE NoEntry

\* The entry an absolute path names, or NoEntry.
RealPath(path) == Walk(Split(path, "/"), <<>>)

\* os.path.exists(path)
PathExists(path) == RealPath(path) # NoEntry

\* os.path.join(COOKIE_DIR, f'{accountname}.txt'), lines 79 and 151.
CookiePath(name) == PathJoin(COOKIE_DIR, name \o TxtSuffix)

\* The characters of the enumerated accountname strings.
NameAlphabet == {"a", ".", "/", "'"}

\* All strings over NameAlphabet of at most n characters.
RECURSIVE NamesUpTo(_)
NamesUpTo(n) ==
    IF n = 0 THEN {<<>>}
    ELSE LET S == NamesUpTo(n - 1)
         IN  S \cup {Append(s, c) : s \in S, c \in NameAlphabet}

\* Values of the accountname form field.
AccountInputs == NamesUpTo(MaxName)

\* Line 145: the accountname field is cleaned.
CleanAccount ==
    /\ pathPc = "form"
    /\ account' = clean_string(account)
    /\ pathPc' = "cleaned"
    /\ UNCHANGED <<cookie_file, cookies, hashtags, description, processed,
                   reprocessed, description_with_tags, tagPc, jobVars>>

\* Lines 150-153: the cookie path is built and must exist, else the request
\* is rejected with 400.
ValidateCookie ==
    /\ pathPc = "cleaned"
    /\ cookie_file' = CookiePath(account)
    /\ pathPc' = IF PathExists(CookiePath(account)) THEN "accepted" ELSE "rejected"
    /\ UNCHANGED <<account, cookies, hashtags, description, processed,
                   reprocessed, description_with_tags, tagPc, jobVars>>

\* Lines 79 and 111: run_upload_in_thread builds the cookie path again and
\* hands it to upload_video.
HandCookies ==
    /\ pathPc = "accepted"
    /\ cookies' = CookiePath(account)
    /\ pathPc' = "handed"
    /\ UNCHANGED <<account, cookie_file, hashtags, description, processed,
                   reprocessed, description_with_tags, tagPc, jobVars>>

----
\* The /upload handler, one job per request.

\* The job's handler has entered stage st.
Enter(j, st) == trace' = [trace EXCEPT ![j] = Append(@, st)]

\* An exception e is raised in job j's outer try block (lines 140-201): control
\* passes to the except clause of line 203.
Raise(j, e) ==
    /\ exc' = [exc EXCEPT ![j] = e]
    /\ pc' = [pc EXCEPT ![j] = "outer_except"]

\* Another job's Publish Driver call is in progress.
DriverBusy(j) == \E i \in Jobs \ {j} : pc[i] = "driver"

\* Lines 128-148: a request arrives and its handler starts on the event loop.
Receive(j) ==
    /\ pc[j] = "idle"
    /\ \A i \in Jobs : i < j => pc[i] # "idle"
    /\ running = NoJob
    /\ running' = j
    /\ \E a \in Accounts : accountname' = [accountname EXCEPT ![j] = a]
    /\ \E s \in SoundInputs : sound_name' = [sound_name EXCEPT ![j] = s]
    /\ temp_files' = [temp_files EXCEPT ![j] = <<>>]
    /\ pc' = [pc EXCEPT ![j] = "validate"]
    /\ UNCHANGED <<files, dirs, exc, response, drvResult, trace,
                   rmFailed, unlinkFailed, tagVars>>

\* Lines 150-153: the cookie file of the account must exist.
Validate(j) ==
    /\ pc[j] = "validate"
    /\ running = j
    /\ Enter(j, "validate")
    /\ IF CookieExists(accountname[j])
       THEN /\ pc' = [pc EXCEPT ![j] = "stage"]
            /\ UNCHANGED exc
       ELSE Raise(j, "HTTP400")
    /\ UNCHANGED <<running, accountname, sound_name, temp_files, files, dirs,
                   response, drvResult, rmFailed, unlinkFailed,
                   tagVars>>

\* Lines 155-159: NamedTemporaryFile(delete=False) creates the clip file, the
\* upload is copied into it, and the path is appended to temp_files.  The copy
\* may raise, which skips the append.
Stage(j) ==
    /\ pc[j] = "stage"
    /\ running = j
    /\ Enter(j, "stage")
    /\ files' = files \cup {ClipFile(j)}
    /\ \/ /\ temp_files' = [temp_files EXCEPT ![j] = Append(@, ClipFile(j))]
          /\ pc' = [pc EXCEPT ![j] = "augment"]
          /\ UNCHANGED exc
       \/ /\ Raise(j, "Exception")
          /\ UNCHANGED temp_files
    /\ UNCHANGED <<running, accountname, sound_name, dirs, response, drvResult, rmFailed, unlinkFailed, tagVars>>

\* An augmentation that, when mix_audio raises, goes on with the unmixed clip.
AugmentWithFallback(j, s) ==
    /\ IF s = NoSound
       THEN /\ pc' = [pc EXCEPT ![j] = "upload"]
            /\ UNCHANGED <<exc, files, temp_files, trace>>
       ELSE IF ~SoundExists(s)
       THEN /\ Enter(j, "augment")
            /\ Raise(j, "HTTP404")
            /\ UNCHANGED <<files, temp_files>>
       ELSE /\ trace' = [trace EXCEPT ![j] = @ \o <<"augment", "mix">>]
            /\ \/ /\ files' = files \cup {MixedFile(j)}
                  /\ temp_files' = [temp_files EXCEPT ![j] = Append(@, MixedFile(j))]
                  /\ pc' = [pc EXCEPT ![j] = "upload"]
                  /\ UNCHANGED exc
               \/ /\ pc' = [pc EXCEPT ![j] = "upload"]
                  /\ UNCHANGED <<exc, files, temp_files>>

\* Lines 161-181, for the sound s of the request: when a sound is named, the
\* sound file must exist (else 404) and mix_audio is called; its output is
\* appended to temp_files; its failure is raised as HTTPException(500).
AugmentWith(j, s) ==
    /\ IF s = NoSound
       THEN /\ pc' = [pc EXCEPT ![j] = "upload"]
            /\ UNCHANGED <<exc, files, temp_files, trace>>
       ELSE IF ~SoundExists(s)
       THEN /\ Enter(j, "augment")
            /\ Raise(j, "HTTP404")
            /\ UNCHANGED <<files, temp_files>>
       ELSE /\ trace' = [trace EXCEPT ![j] = @ \o <<"augment", "mix">>]
            /\ \/ /\ files' = files \cup {MixedFile(j)}
                  /\ temp_files' = [temp_files EXCEPT ![j] = Append(@, MixedFile(j))]
                  /\ pc' = [pc EXCEPT ![j] = "upload"]
                  /\ UNCHANGED exc
               \/ /\ Raise(j, "HTTP500")
                  /\ UNCHANGED <<files, temp_files>>

Augment(j) ==
    /\ pc[j] = "augment"
    /\ running = j
    /\ AugmentWith(j, sound_name[j])
    /\ UNCHANGED <<running, accountname, sound_name, dirs, response, drvResult, rmFailed, unlinkFailed, tagVars>>

\* cleanup_chrome_data, lines 48-60: every directory under CHROME_DATA_DIR is
\* removed; a removal that fails is logged and the directory stays.  The
\* result is the set of directories left.
SweepResults == SUBSET dirs

\* Lines 73-90 of run_upload_in_thread: the sweep, then os.makedirs of the
\* job's own session directory.
OpenSession(j) ==
    /\ pc[j] = "upload"
    /\ running = j
    /\ Enter(j, "open")
    /\ \E left \in SweepResults : dirs' = left \cup {j}
    /\ pc' = [pc EXCEPT ![j] = "to_thread"]
    /\ UNCHANGED <<running, accountname, sound_name, temp_files, files, exc,
                   response, drvResult, rmFailed, unlinkFailed,
                   tagVars>>

\* A handler that calls upload_video on the event loop itself instead of
\* awaiting it in a worker thread: the loop stays occupied during the call.
StartDriverBlocking(j) ==
    /\ pc[j] = "to_thread"
    /\ running = j
    /\ Enter(j, "publish")
    /\ pc' = [pc EXCEPT ![j] = "driver"]
    /\ UNCHANGED <<running, accountname, sound_name, temp_files, files, dirs,
                   exc, response, drvResult, rmFailed, unlinkFailed,
                   tagVars>>

\* Lines 92-115: upload_video is started in a worker thread and the coroutine
\* awaits it, which frees the event loop.
StartDriver(j) ==
    /\ pc[j] = "to_thread"
    /\ running = j
    /\ Enter(j, "publish")
    /\ pc' = [pc EXCEPT ![j] = "driver"]
    /\ running' = NoJob
    /\ UNCHANGED <<accountname, sound_name, temp_files, files, dirs, exc,
                   response, drvResult, rmFailed, unlinkFailed,
                   tagVars>>

\* What upload_video can do: return an empty list (every video published),
\* return the non-empty list of the videos that failed, or raise.
DriverResults == {"empty", "failed", "raised"}

\* upload_video finishes in its worker thread.
DriverReturn(j) ==
    /\ pc[j] = "driver"
    /\ \E r \in DriverResults : drvResult' = [drvResult EXCEPT ![j] = r]
    /\ pc' = [pc EXCEPT ![j] = "driver_done"]
    /\ UNCHANGED <<running, accountname, sound_name, temp_files, files, dirs,
                   exc, response, trace, rmFailed, unlinkFailed,
                   tagVars>>

\* A coroutine that is resumed only when the thread returned a value: an
\* exception of the thread is lost and the coroutine waits for ever.
ResumeOnValueOnly(j) ==
    /\ pc[j] = "driver_done"
    /\ drvResult[j] # "raised"
    /\ running = NoJob
    /\ running' = j
    /\ exc' = [exc EXCEPT ![j] = "none"]
    /\ pc' = [pc EXCEPT ![j] = "close"]
    /\ UNCHANGED <<accountname, sound_name, temp_files, files, dirs, response,
                   drvResult, trace, rmFailed, unlinkFailed,
                   tagVars>>

\* Lines 115-118: the coroutine resumes on the event loop with the thread's
\* result; an exception is logged and raised again.
Resume(j) ==
    /\ pc[j] = "driver_done"
    /\ running = NoJob
    /\ running' = j
    /\ exc' = [exc EXCEPT ![j] = IF drvResult[j] = "raised" THEN "Exception" ELSE "none"]
    /\ pc' = [pc EXCEPT ![j] = "close"]
    /\ UNCHANGED <<accountname, sound_name, temp_files, files, dirs, response,
                   drvResult, trace, rmFailed, unlinkFailed,
                   tagVars>>

\* A close step that removes the session directory after the try block
\* instead of in a finally clause: an exception skips the removal.
CloseSessionAfterTry(j) ==
    /\ pc[j] = "close"
    /\ running = j
    /\ Enter(j, "close")
    /\ IF j \in dirs /\ exc[j] = "none"
       THEN \/ /\ dirs' = dirs \ {j}
               /\ UNCHANGED rmFailed
            \/ /\ rmFailed' = [rmFailed EXCEPT ![j] = TRUE]
               /\ UNCHANGED dirs
       ELSE UNCHANGED <<dirs, rmFailed>>
    /\ pc' = [pc EXCEPT ![j] = IF exc[j] = "none" THEN "cleanup" ELSE "inner_except"]
    /\ UNCHANGED <<running, accountname, sound_name, temp_files, files, exc,
                   response, drvResult, unlinkFailed, tagVars>>

\* Lines 119-125, the finally clause of run_upload_in_thread: the session
\* directory, if it exists, is removed with ignore_errors=True, so a removal
\* that fails leaves it in place silently.  Then the value is returned to
\* line 196, or the exception reaches the except clause of line 198.
CloseSession(j) ==
    /\ pc[j] = "close"
    /\ running = j
    /\ Enter(j, "close")
    /\ IF j \in dirs
       THEN \/ /\ dirs' = dirs \ {j}
               /\ UNCHANGED rmFailed
            \/ /\ rmFailed' = [rmFailed EXCEPT ![j] = TRUE]
               /\ UNCHANGED dirs
       ELSE UNCHANGED <<dirs, rmFailed>>
    /\ pc' = [pc EXCEPT ![j] = IF exc[j] = "none" THEN "cleanup" ELSE "inner_except"]
    /\ UNCHANGED <<running, accountname, sound_name, temp_files, files, exc,
                   response, drvResult, unlinkFailed, tagVars>>

\* An except clause that tries the upload again instead of failing the job.
InnerExceptRetry(j) ==
    /\ pc[j] = "inner_except"
    /\ running = j
    /\ exc' = [exc EXCEPT ![j] = "none"]
    /\ pc' = [pc EXCEPT ![j] = "upload"]
    /\ UNCHANGED <<running, accountname, sound_name, temp_files, files, dirs,
                   response, drvResult, trace, rmFailed,
                   unlinkFailed, tagVars>>

\* Lines 198-201: whatever run_upload_in_thread raised becomes
\* HTTPException(500).
InnerExcept(j) ==
    /\ pc[j] = "inner_except"
    /\ running = j
    /\ Raise(j, "HTTP500")
    /\ UNCHANGED <<running, accountname, sound_name, temp_files, files, dirs,
                   response, drvResult, trace, rmFailed,
                   unlinkFailed, tagVars>>

\* Lines 203-207: an HTTPException is raised again as it is, anything else as
\* HTTPException(500).
OuterExcept(j) ==
    /\ pc[j] = "outer_except"
    /\ running = j
    /\ exc' = [exc EXCEPT ![j] = IF IsHTTPException(@) THEN @ ELSE "HTTP500"]
    /\ pc' = [pc EXCEPT ![j] = "cleanup"]
    /\ UNCHANGED <<running, accountname, sound_name, temp_files, files, dirs,
                   response, drvResult, trace, rmFailed,
                   unlinkFailed, tagVars>>

\* A cleanup that unlinks the temporary files on the success path only.
CleanupAfterTry(j) ==
    /\ pc[j] = "cleanup"
    /\ running = j
    /\ Enter(j, "cleanup")
    /\ IF exc[j] = "none"
       THEN \E failed \in SUBSET (Range(temp_files[j]) \cap files) :
               /\ files' = files \ (Range(temp_files[j]) \ failed)
               /\ unlinkFailed' = [unlinkFailed EXCEPT ![j] = failed]
       ELSE UNCHANGED <<files, unlinkFailed>>
    /\ response' = [response EXCEPT ![j] = IF exc[j] = "none" THEN 200 ELSE StatusOf(exc[j])]
    /\ pc' = [pc EXCEPT ![j] = "done"]
    /\ running' = NoJob
    /\ UNCHANGED <<accountname, sound_name, temp_files, dirs, exc, drvResult,
                   rmFailed, tagVars>>

\* A finally clause whose unlink is not guarded by try/except: the first unlink
\* that fails ends the loop, and its exception replaces the job's outcome.
CleanupRaising(j) ==
    /\ pc[j] = "cleanup"
    /\ running = j
    /\ Enter(j, "cleanup")
    /\ \E failed \in SUBSET (Range(temp_files[j]) \cap files) :
          /\ files' = IF failed = {} THEN files \ Range(temp_files[j]) ELSE files
          /\ unlinkFailed' = [unlinkFailed EXCEPT ![j] = failed]
          /\ response' = [response EXCEPT ![j] =
                 IF failed # {} THEN 500
                 ELSE IF exc[j] = "none" THEN 200 ELSE StatusOf(exc[j])]
    /\ pc' = [pc EXCEPT ![j] = "done"]
    /\ running' = NoJob
    /\ UNCHANGED <<accountname, sound_name, temp_files, dirs, exc, drvResult, rmFailed, tagVars>>

\* Lines 209-216, the finally clause of the handler: every file of temp_files
\* that exists is unlinked; an unlink that fails is logged and the loop goes
\* on.  Then the response is sent: 200 on return, the exception's status
\* otherwise.
Cleanup(j) ==
    /\ pc[j] = "cleanup"
    /\ running = j
    /\ Enter(j, "cleanup")
    /\ \E failed \in SUBSET (Range(temp_files[j]) \cap files) :
          /\ files' = files \ (Range(temp_files[j]) \ failed)
          /\ unlinkFailed' = [unlinkFailed EXCEPT ![j] = failed]
    /\ response' = [response EXCEPT ![j] = IF exc[j] = "none" THEN 200 ELSE StatusOf(exc[j])]
    /\ pc' = [pc EXCEPT ![j] = "done"]
    /\ running' = NoJob
    /\ UNCHANGED <<accountname, sound_name, temp_files, dirs, exc, drvResult, rmFailed, tagVars>>

\* Lines 218-220, GET /health: a health-check request is taken up when no
\* other coroutine occupies the event loop, whatever the worker threads do.
HealthCheck ==
    /\ running = NoJob
    /\ running' = HealthReq
    /\ UNCHANGED <<pc, accountname, sound_name, temp_files, files, dirs, exc,
                   response, drvResult, trace, rmFailed, unlinkFailed, tagVars>>

\* Line 220: the handler has no await; it returns its response, which ends
\* its turn of the event loop.
HealthRespond ==
    /\ running = HealthReq
    /\ running' = NoJob
    /\ UNCHANGED <<pc, accountname, sound_name, temp_files, files, dirs, exc,
                   response, drvResult, trace, rmFailed, unlinkFailed, tagVars>>

----
\* The specifications.

InitJobs ==
    /\ pc = [j \in Jobs |-> "idle"]
    /\ running = NoJob
    /\ accountname = [j \in Jobs |-> "alice"]
    /\ sound_name = [j \in Jobs |-> NoSound]
    /\ temp_files = [j \in Jobs |-> <<>>]
    /\ files = {}
    /\ exc = [j \in Jobs |-> "none"]
    /\ response = [j \in Jobs |-> 0]
    /\ drvResult = [j \in Jobs |-> "none"]
    /\ trace = [j \in Jobs |-> <<>>]
    /\ rmFailed = [j \in Jobs |-> FALSE]
    /\ unlinkFailed = [j \in Jobs |-> {}]

\* The text pipeline is not part of the job model.
InitTags ==
    /\ processed = None
    /\ reprocessed = None
    /\ description_with_tags = None

\* Nor is the credential path pipeline.
InitPathOff ==
    /\ account = None
    /\ cookie_file = None
    /\ cookies = None
    /\ pathPc = "off"

\* The handlers of the requests, under every interleaving the event loop and
\* the worker threads allow.
Init ==
    /\ InitJobs
    /\ dirs = {}
    /\ InitTags
    /\ InitPathOff
    /\ hashtags = None
    /\ description = <<>>
    /\ tagPc = "off"

Next ==
    \/ \E j \in Jobs :
          \/ Receive(j)
          \/ Validate(j)
          \/ Stage(j)
          \/ Augment(j)
          \/ OpenSession(j)
          \/ StartDriver(j)
          \/ DriverReturn(j)
          \/ Resume(j)
          \/ CloseSession(j)
          \/ InnerExcept(j)
          \/ OuterExcept(j)
          \/ Cleanup(j)
    \/ HealthCheck
    \/ HealthRespond

Spec == Init /\ [][Next]_vars

\* The steps of job j's handler after its request was received, and the end
\* of its upload_video call.
Progress(j) ==
    \/ Validate(j)
    \/ Stage(j)
    \/ Augment(j)
    \/ OpenSession(j)
    \/ StartDriver(j)
    \/ DriverReturn(j)
    \/ Resume(j)
    \/ CloseSession(j)
    \/ InnerExcept(j)
    \/ OuterExcept(j)
    \/ Cleanup(j)

\* The same handlers, where every upload_video call returns or raises, the
\* health check returns (it has no await), and the event loop, which runs its
\* ready coroutines in the order they became ready, runs every coroutine that
\* is ready again and again: other requests taking their turns in between do
\* not starve it.
SpecLive ==
    /\ Spec
    /\ \A j \in Jobs : SF_vars(Progress(j))
    /\ WF_vars(HealthRespond)

\* The text pipeline alone, for every value of the form fields.
InitText ==
    /\ InitJobs
    /\ dirs = {}
    /\ InitTags
    /\ InitPathOff
    /\ hashtags \in HashtagInputs
    /\ description \in DescriptionInputs
    /\ tagPc = "form"

NextText ==
    \/ CleanInputs
    \/ ComposeDescription
    \/ Reprocess

SpecText == InitText /\ [][NextText]_vars

\* The credential path pipeline alone, for every value of the accountname
\* field.
InitPath ==
    /\ InitJobs
    /\ dirs = {}
    /\ InitTags
    /\ hashtags = None
    /\ description = <<>>
    /\ tagPc = "off"
    /\ account \in AccountInputs
    /\ cookie_file = None
    /\ cookies = None
    /\ pathPc = "form"

NextPath ==
    \/ CleanAccount
    \/ ValidateCookie
    \/ HandCookies

SpecPath == InitPath /\ [][NextPath]_vars

----
\* Vocabulary of the properties.

\* Job j has entered stage st.
Entered(j, st) == st \in Range(trace[j])

\* Job j has reached its terminal state: its response was sent.
Terminal(j) == pc[j] = "done"

\* Job j is between the open of its session (os.makedirs, line 90) and the
\* close (the finally clause of line 119).
SessionOpen(j) == pc[j] \in {"to_thread", "driver", "driver_done", "close"}

\* Job j's request names an account whose cookie blob holds the marker.
ValidCredential(j) ==
    /\ accountname[j] \in DOMAIN CookieBlob
    /\ CookieBlob[accountname[j]] = "marker"

\* Job j's request names an account whose cookie blob lacks the marker.
MalformedCredential(j) ==
    /\ accountname[j] \in DOMAIN CookieBlob
    /\ CookieBlob[accountname[j]] = "nomarker"

----
\* The properties.

\* C1: at most one job is inside the Publish Driver call (upload_video) at
\* any instant.
C1_AtMostOneInDriver == Cardinality({j \in Jobs : pc[j] = "driver"}) <= 1

\* C2: a request with a valid credential that is being handled while another
\* job's publish step is running is rejected at once with 429 (Busy): its
\* handler never goes past credential validation towards the publish step.
C2_SecondRequestBusy ==
    \A i, k \in Jobs :
        (i # k /\ pc[i] = "driver" /\ running = k /\ DriverBusy(k)
              /\ ValidCredential(k))
            => \/ pc[k] = "validate"
               \/ pc[k] \in {"outer_except", "cleanup"} /\ exc[k] = "HTTP429"

\* C3, as stated: once a job has reached its terminal state, its session
\* directory does not exist.
C3_DirGoneAtTerminal == \A j \in Jobs : Terminal(j) => j \notin dirs

\* C3, amended: once a job has reached its terminal state, its session
\* directory does not exist, unless the rmtree of the close step failed (the
\* error is ignored and the directory stays).
C3_DirGoneUnlessRmtreeFailed ==
    \A j \in Jobs : (Terminal(j) /\ ~rmFailed[j]) => j \notin dirs

\* A job whose driver call raised has terminated and its session directory,
\* which it had created, is gone.
C3_Witness ==
    \E j \in Jobs :
        /\ Terminal(j)
        /\ Entered(j, "open")
        /\ drvResult[j] = "raised"
        /\ ~rmFailed[j]
        /\ j \notin dirs

\* C4: the session directory of a job that is between open and close exists:
\* no action of another job removes it.
C4_OpenSessionHasDir == \A j \in Jobs : SessionOpen(j) => j \in dirs

\* C5: a job whose account has no cookie file never creates a session
\* directory and never enters media staging, augmentation or publish.
C5_NoCookieNoSession ==
    \A j \in Jobs :
        (pc[j] # "idle" /\ accountname[j] \notin DOMAIN CookieBlob)
            => /\ j \notin dirs
               /\ ClipFile(j) \notin files
               /\ \A st \in {"stage", "augment", "mix", "open", "publish"} :
                     ~Entered(j, st)

\* A job whose account has no cookie file was rejected with status 400.
C5_Witness ==
    \E j \in Jobs :
        /\ Terminal(j)
        /\ accountname[j] \notin DOMAIN CookieBlob
        /\ response[j] = 400

\* C6: a request whose cookie blob lacks the session-token marker is rejected
\* as a credential failure (400) before a session is opened: no session
\* directory is created and the Publish Driver is not invoked.
C6_MalformedRejected ==
    \A j \in Jobs :
        (pc[j] # "idle" /\ MalformedCredential(j))
            => /\ ~Entered(j, "open")
               /\ ~Entered(j, "publish")
               /\ Terminal(j) => response[j] = 400

\* C7: the return signal of upload_video decides the outcome: a non-empty
\* result is reported as failure (500), and success (200) is reported only
\* when the driver's result indicates no failure.
C7_DriverSignalDecides ==
    \A j \in Jobs :
        Terminal(j) =>
            /\ drvResult[j] = "failed" => response[j] = 500
            /\ response[j] = 200 => drvResult[j] = "empty"

\* C8, as stated: a request naming a sound with no file in the library, once
\* its base clip is staged, ends with 404, never invokes the Media Mixer or
\* the Publish Driver, and its staged clip file no longer exists once the job
\* has terminated.
C8_MissingSoundCleansUp ==
    \A j \in Jobs :
        (Terminal(j) /\ sound_name[j] # NoSound /\ ~SoundExists(sound_name[j])
              /\ ClipFile(j) \in Range(temp_files[j]))
            => /\ response[j] = 404
               /\ ~Entered(j, "mix")
               /\ ~Entered(j, "publish")
               /\ ClipFile(j) \notin files

\* C8, amended: such a request, once its base clip is staged, ends with 404,
\* never invokes the Media Mixer or the Publish Driver, and its staged clip
\* file no longer exists once the job has terminated, unless the os.unlink of
\* that file failed (the failure is logged and the file stays).
C8_MissingSoundCleansUpUnlessUnlinkFailed ==
    \A j \in Jobs :
        (Terminal(j) /\ sound_name[j] # NoSound /\ ~SoundExists(sound_name[j])
              /\ ClipFile(j) \in Range(temp_files[j]))
            => /\ response[j] = 404
               /\ ~Entered(j, "mix")
               /\ ~Entered(j, "publish")
               /\ ClipFile(j) \in files => ClipFile(j) \in unlinkFailed[j]

\* A job that named a missing sound has terminated with 404 after staging its
\* clip, and the clip file is gone.
C8_Witness ==
    \E j \in Jobs :
        /\ Terminal(j)
        /\ sound_name[j] = "nosuch"
        /\ Entered(j, "stage")
        /\ response[j] = 404
        /\ ClipFile(j) \notin files

\* The tag the specification describes for a raw tag: surrounding whitespace
\* removed, then exactly one leading '#'.
NormalTag(tag) ==
    <<"#">> \o StripChars(LStripChars(StripChars(tag, Whitespace), {"#"}), Whitespace)

\* The hashtag text the specification describes: the non-blank tags, in their
\* order, each normalised, joined by single spaces.
NormalTags(h) ==
    IF ~Truthy(h) THEN <<>>
    ELSE LET tags == KeptTags(Split(h, ","))
         IN  Join([i \in 1..Len(tags) |-> NormalTag(tags[i])], <<" ">>)

\* C9: process_hashtags keeps the order of the tags and gives each exactly one
\* leading '#' with the surrounding whitespace removed;
\* "funny, #dance ,music" yields "#funny #dance #music".
C9_HashtagsNormalised ==
    tagPc \in {"composed", "reprocessed"} =>
        /\ hashtags = ExampleTags => processed = ExampleFormatted
        /\ processed = NormalTags(hashtags)

\* C10: formatting the formatted hashtags again changes nothing, and for an
\* empty or missing hashtags field the description handed to the Publish
\* Driver is the base description.
C10_HashtagsIdempotent ==
    /\ tagPc = "reprocessed" => reprocessed = processed
    /\ (tagPc \in {"composed", "reprocessed"} /\ ~Truthy(hashtags))
           => description_with_tags = description

\* The upload was not copied into the clip file (line 157 raised).
CopyFailed(j) == Entered(j, "stage") /\ ClipFile(j) \notin Range(temp_files[j])

\* The request named a sound that has no file in the library.
SoundMissing(j) == sound_name[j] # NoSound /\ ~SoundExists(sound_name[j])

\* mix_audio was called and raised.
MixFailed(j) == Entered(j, "mix") /\ MixedFile(j) \notin Range(temp_files[j])

\* The status of each failure class, 200 when the job did not fail; the
\* Publish Driver fails by raising or by returning the videos that failed.
ClassStatus(j) ==
    IF accountname[j] \notin DOMAIN CookieBlob THEN 400
    ELSE IF CopyFailed(j) THEN 500
    ELSE IF SoundMissing(j) THEN 404
    ELSE IF MixFailed(j) THEN 500
    ELSE IF drvResult[j] \in {"raised", "failed"} THEN 500
    ELSE 200

\* C11: every failure is reported with the status of its class (credential
\* 400, missing sound 404, Media Mixer and Publish Driver failures 500,
\* anything unclassified 500), and the status an inner stage raised is not
\* replaced by another on the way out.
C11_StatusOfFailureClass ==
    \A j \in Jobs : Terminal(j) => response[j] = ClassStatus(j)

\* The statuses a response can carry.
Outcomes == {200, 400, 404, 500}

\* C12: every submitted job eventually reaches its terminal state, with
\* exactly one outcome, success (200) or failure: the response is sent when
\* the job terminates, and neither the terminal state nor the outcome changes
\* afterwards.
C12_EveryJobEndsOnce ==
    /\ \A j \in Jobs : (pc[j] # "idle") ~> Terminal(j)
    /\ [](\A j \in Jobs : IF Terminal(j) THEN response[j] \in Outcomes
                                         ELSE response[j] = 0)
    /\ [][\A j \in Jobs : Terminal(j) => Terminal(j)' /\ response'[j] = response[j]]_vars

\* Both outcomes are reached: one job has ended in success, another in failure.
C12_Witness ==
    \E i, j \in Jobs :
        /\ Terminal(i) /\ response[i] = 200
        /\ Terminal(j) /\ response[j] = 500 /\ drvResult[j] = "raised"

\* The path names a file located directly inside COOKIE_DIR.
InsideCookieDir(path) ==
    LET real == RealPath(path)
    IN  /\ real \in RegularFiles
        /\ Len(real) = 3
        /\ SubSeq(real, 1, 2) = <<AppName, CookiesName>>

\* C13: for every accountname the endpoint accepts, the credential path that
\* was validated, and the one handed to the Publish Driver, is a file directly
\* inside COOKIE_DIR.
C13_CookiePathInsideCookieDir ==
    /\ pathPc \in {"accepted", "handed"} => InsideCookieDir(cookie_file)
    /\ pathPc = "handed" => InsideCookieDir(cookies)

\* C14: every file created on behalf of a job, the staged clip and the mixed
\* clip, is removed by the time the job terminates, on every exit path,
\* the failure of the copy into the new temporary file included.  Stated
\* here with the allowance of C8: a file whose os.unlink failed may remain.
C14_NoFileOutlivesJob ==
    \A j \in Jobs :
        Terminal(j) =>
            \A f \in {ClipFile(j), MixedFile(j)} :
                f \in files => f \in unlinkFailed[j]

\* The stages of a job in the order the specification gives them.
StageOrder == <<"validate", "admit", "stage", "augment", "publish", "close">>

\* The place of a stage in StageOrder.
StageRank(st) == CHOOSE i \in 1..Len(StageOrder) : StageOrder[i] = st

\* The stages of StageOrder that job j has entered, in the order of entry.
OrderedStages(j) == SelectSeq(trace[j], LAMBDA st : st \in Range(StageOrder))

\* The stages job j has entered follow StageOrder, each at most once.
InStageOrder(j) ==
    LET t == OrderedStages(j)
    IN  \A a, b \in 1..Len(t) : a < b => StageRank(t[a]) < StageRank(t[b])

\* C15: within one job the stages run in the order validate, admit, stage
\* media, augment, publish, close; a stage begins only when its predecessor
\* has completed (media is staged only by a job that was admitted, and a job
\* is admitted only after validation); and once a stage has failed no stage
\* but the close is entered.
C15_StagesInOrder ==
    \A j \in Jobs :
        /\ InStageOrder(j)
        /\ Entered(j, "stage") => Entered(j, "admit")
        /\ Entered(j, "admit") => Entered(j, "validate")
        /\ exc[j] # "none" =>
               pc[j] \in {"close", "inner_except", "outer_except", "cleanup", "done"}

\* C16: the session is opened before media is staged, so the session
\* directory exists when the clip copy is created, and the staged clip lives in
\* that directory: once the close has removed the directory, the clip is gone.
C16_ClipLivesInSession ==
    \A j \in Jobs :
        /\ Entered(j, "stage") => Entered(j, "open")
        /\ (pc[j] = "augment" /\ ClipFile(j) \in files) => j \in dirs
        /\ (Entered(j, "close") /\ j \notin dirs) => ClipFile(j) \notin files

\* C17: when mix_audio fails the job fails with 500 and the Publish Driver is
\* not invoked: no session is opened and the unmixed clip is not published.
C17_MixFailureStopsJob ==
    \A j \in Jobs :
        MixFailed(j) =>
            /\ ~Entered(j, "open")
            /\ ~Entered(j, "publish")
            /\ drvResult[j] = "none"
            /\ Terminal(j) => response[j] = 500

\* A job whose mix_audio call failed has terminated with 500.
C17_Witness ==
    \E j \in Jobs :
        /\ Terminal(j)
        /\ sound_name[j] = "rain"
        /\ MixFailed(j)
        /\ response[j] = 500

\* The number of times job j has invoked upload_video.
PublishCount(j) == Len(SelectSeq(trace[j], LAMBDA st : st = "publish"))

\* The positions of a handler that is on its way out.
Leaving == {"close", "inner_except", "outer_except", "cleanup", "done"}

\* C18: upload_video is invoked at most once per job; a job whose driver call
\* has finished never goes back to it, and a job in which an exception was
\* raised only proceeds to its end.
C18_NoRetry ==
    \A j \in Jobs :
        /\ PublishCount(j) <= 1
        /\ drvResult[j] # "none" => pc[j] \in Leaving \cup {"driver_done"}
        /\ exc[j] # "none" => pc[j] \in Leaving

\* A job whose driver call raised has terminated with 500 after a single
\* invocation of upload_video.
C18_Witness ==
    \E j \in Jobs :
        /\ Terminal(j)
        /\ drvResult[j] = "raised"
        /\ PublishCount(j) = 1
        /\ response[j] = 500

\* The outcome the try block of the handler produces for job j, from what
\* happened to the job: 400 without a cookie file (line 153), 500 when the
\* copy of the clip raised (lines 155-157 through 207), 404 for a missing
\* sound (line 166), 500 when mix_audio raised (line 181), 500 when
\* upload_video raised (line 201), and success when it returned (line 193).
PipelineStatus(j) ==
    IF accountname[j] \notin DOMAIN CookieBlob THEN 400
    ELSE IF CopyFailed(j) THEN 500
    ELSE IF SoundMissing(j) THEN 404
    ELSE IF MixFailed(j) THEN 500
    ELSE IF drvResult[j] = "raised" THEN 500
    ELSE 200

\* C19: whatever fails while the session directory is removed or the temporary
\* files are unlinked, a terminated job reports the outcome its pipeline
\* produced, its cleanup step has run, and every file it registered has been
\* unlinked or is recorded as a failed unlink: no file was skipped.
C19_CleanupNeverMasks ==
    \A j \in Jobs :
        Terminal(j) =>
            /\ response[j] = PipelineStatus(j)
            /\ Entered(j, "cleanup")
            /\ unlinkFailed[j] \subseteq Range(temp_files[j])
            /\ \A f \in Range(temp_files[j]) : f \notin files \/ f \in unlinkFailed[j]

\* A job whose session directory could not be removed and whose clip could
\* not be unlinked has still reported success, and its mixed file, the other
\* registered file, is gone.
C19_Witness ==
    \E j \in Jobs :
        /\ Terminal(j)
        /\ rmFailed[j]
        /\ unlinkFailed[j] = {ClipFile(j)}
        /\ MixedFile(j) \in Range(temp_files[j])
        /\ MixedFile(j) \notin files
        /\ response[j] = 200

\* C20: while a job's call of upload_video is in progress the job does not
\* occupy the event loop: a health-check request is taken up whenever no
\* other handler occupies the loop, and once taken up it can be answered,
\* whether or not the call has returned.
C20_LoopFreeDuringDriver ==
    \A j \in Jobs :
        pc[j] = "driver" =>
            /\ running # j
            /\ running = NoJob => ENABLED HealthCheck
            /\ running = HealthReq => ENABLED HealthRespond

\* The health check is being answered while the first job's call of
\* upload_video, the only call started so far, has not returned.
C20_Witness ==
    /\ running = HealthReq
    /\ pc[1] = "driver"
    /\ \A j \in Jobs : j # 1 => pc[j] = "idle"
====
